---- MODULE Spec2Model ----
(***************************************************************************)
(* Model of supabase/functions/ai-doctor-ml/index.py: a Flask application  *)
(* that loads a classifier and a vectorizer with joblib when the module is *)
(* imported and serves one route, POST /, with the handler predict().      *)
(*                                                                         *)
(* Python values are records [kind, s, n] so that values of different      *)
(* Python types can be compared.  A request handler is modelled statement  *)
(* by statement: Flask's development server handles requests on threads,   *)
(* so several invocations of predict() can be in progress at once.         *)
(***************************************************************************)
EXTENDS Integers, Sequences, FiniteSets, TLC

\* Number of requests sent to the service in one run.
MaxRequests == 2

Requests == 1..MaxRequests

(***************************************************************************)
(* Python values                                                           *)
(***************************************************************************)
PyNone == [kind |-> "None", s |-> "", n |-> 0]

\* A name that has no binding yet (a NameError if it were read).
Unbound == [kind |-> "unbound", s |-> "", n |-> 0]

StrVal(s) == [kind |-> "str", s |-> s, n |-> 0]

IntVal(n) == [kind |-> "int", s |-> "", n |-> n]

\* The JSON array [] as a Python list.
ListVal == [kind |-> "list", s |-> "", n |-> 0]

Digits == <<"0", "1", "2", "3", "4", "5", "6", "7", "8", "9">>

RECURSIVE NatToStr(_)
NatToStr(n) == IF n < 10 THEN Digits[n + 1]
               ELSE NatToStr(n \div 10) \o Digits[(n % 10) + 1]

\* str(v) for the values a classifier returns as labels.
PyStr(v) == IF v.kind = "int"
            THEN (IF v.n < 0 THEN "-" \o NatToStr(0 - v.n) ELSE NatToStr(v.n))
            ELSE v.s

(***************************************************************************)
(* The pickled artifacts                                                   *)
(***************************************************************************)
\* Texts a client may send as symptoms.
Texts == {"", "fever"}

\* Rows a vectorizer produces, by number.
Features == {0, 1}

\* Labels a classifier produces: class indices or class names.
Labels == {IntVal(12), StrVal("flu")}

\* One row of a feature matrix.
RowVal(x) == [kind |-> "row", s |-> "", n |-> x]

\* A fitted vectorizer: it maps every text to a feature row, the empty text to
\* the zero row; given a document that is not text it either raises or
\* (lenient) treats it as a token of its own.
Vectorizers == {v \in [tf : [Texts -> Features], lenient : BOOLEAN] : v.tf[""] = 0}

\* A fitted classifier: it maps every feature row to a label, and tells the
\* rows apart.
Classifiers == {c \in [Features -> Labels] : c[0] # c[1]}

NoVectorizer == [tf |-> [t \in Texts |-> 0], lenient |-> FALSE]

NoClassifier == [x \in Features |-> PyNone]

\* The module-level names model and vectorizer: unbound, None, or an object.
UnboundName(o) == [kind |-> "unbound", obj |-> o]

NoneName(o) == [kind |-> "None", obj |-> o]

ObjName(o) == [kind |-> "obj", obj |-> o]

\* joblib.load(path): the unpickled object, or an exception (a missing file,
\* a corrupt pickle, a class that cannot be imported).
JoblibLoad(contents, none) ==
    {[raised |-> TRUE, obj |-> none]} \cup {[raised |-> FALSE, obj |-> o] : o \in contents}

\* vectorizer.transform(docs): one row per document, or an exception; None
\* has no transform.
VecTransform(v, docs) ==
    IF v.kind # "obj" \/ \E i \in DOMAIN docs : docs[i].kind # "str" /\ ~v.obj.lenient
    THEN [raised |-> TRUE, X |-> <<>>]
    ELSE [raised |-> FALSE,
          X |-> [i \in DOMAIN docs |->
                    IF docs[i].kind = "str" THEN RowVal(v.obj.tf[docs[i].s])
                    ELSE RowVal(1)]]

\* model.predict(X): one label per row.
ModelPredict(m, X) == [i \in DOMAIN X |-> m.obj[X[i].n]]

(***************************************************************************)
(* Requests and responses                                                  *)
(***************************************************************************)
\* Values a JSON object may carry under "symptoms".
SymptomValues == {StrVal(t) : t \in Texts} \cup {IntVal(7), PyNone, ListVal}

Body(kind, hasKey, val) == [kind |-> kind, hasKey |-> hasKey, val |-> val]

\* Request bodies: no JSON content type, JSON that does not parse, the JSON
\* values null and [], an object without "symptoms", an object with it.
Bodies ==
    {Body(k, FALSE, PyNone) : k \in {"absent", "malformed", "null", "list", "object"}}
        \cup {Body("object", TRUE, v) : v \in SymptomValues}

\* What request.get_json() does with a body that is not declared as JSON:
\* Flask before 2.1 returns None, 2.1 and 2.2 answer 400, later ones 415.
FlaskBuilds == {"returns None", "400", "415"}

\* A response: its status, its content type and, for a JSON object with one
\* key, that key and its value.
Response(status, ctype, key, value) ==
    [status |-> status, ctype |-> ctype, key |-> key, value |-> value]

NoResponse == Response(0, "", "", Unbound)

\* jsonify(d) for a one-key dict, with the status returned beside it.
Jsonify(key, value, status) == Response(status, "application/json", key, value)

\* Flask's answer to an HTTP exception or to an exception the handler let out.
HtmlError(status, what) == Response(status, "text/html", "", StrVal(what))

\* request.get_json(): the parsed value, or an HTTP exception.
GetJson(body, build) ==
    CASE body.kind = "malformed" -> [raised |-> 400, data |-> body]
      [] body.kind = "absent" /\ build = "400" -> [raised |-> 400, data |-> body]
      [] body.kind = "absent" /\ build = "415" -> [raised |-> 415, data |-> body]
      [] body.kind = "absent" -> [raised |-> 0, data |-> Body("null", FALSE, PyNone)]
      [] OTHER -> [raised |-> 0, data |-> body]

\* Variant of DataGet: data["symptoms"], which raises KeyError without the key.
DataGetNoDefault(data) ==
    IF data.kind # "object" \/ ~data.hasKey THEN [raised |-> TRUE, value |-> Unbound]
    ELSE [raised |-> FALSE, value |-> data.val]

\* Variant of DataGet: data.get("symptoms") or "", which also replaces the
\* falsy values None, [] and 0 by the empty string.
DataGetOrEmpty(data) ==
    IF data.kind # "object" THEN [raised |-> TRUE, value |-> Unbound]
    ELSE IF data.hasKey /\ data.val \notin {PyNone, ListVal, IntVal(0)}
    THEN [raised |-> FALSE, value |-> data.val]
    ELSE [raised |-> FALSE, value |-> StrVal("")]

\* data.get("symptoms", ""): only a dict has get; the default is used only
\* when the key is absent.
DataGet(data) ==
    IF data.kind # "object" THEN [raised |-> TRUE, value |-> Unbound]
    ELSE IF data.hasKey THEN [raised |-> FALSE, value |-> data.val]
    ELSE [raised |-> FALSE, value |-> StrVal("")]

Call(fn, arg) == [fn |-> fn, arg |-> arg]

\* One invocation of predict(): its position, its request, its locals, the
\* calls it has made on the request and on the artifacts, and its response.
Frame(pos, body, symptoms, X, calls, resp) ==
    [pc |-> pos, body |-> body, symptoms |-> symptoms, X |-> X,
     calls |-> calls, resp |-> resp]

Idle == Frame("idle", Body("absent", FALSE, PyNone), Unbound, <<>>, <<>>, NoResponse)

\* The handler has returned (or raised): its locals are gone.
Done(f, calls, resp) == Frame("done", f.body, Unbound, <<>>, calls, resp)

(***************************************************************************)
(* State                                                                   *)
(***************************************************************************)
VARIABLES
    pc,          \* position of the module-level code
    model,       \* the module-level name model
    vectorizer,  \* the module-level name vectorizer
    loads,       \* the calls of joblib.load so far: the path and how it ended
    flask,       \* the installed Flask's get_json behaviour
    req          \* the invocations of predict(), one per request

vars == <<pc, model, vectorizer, loads, flask, req>>

MODEL_PATH == "disease_model.pkl"

VECTORIZER_PATH == "vectorizer.pkl"

Load(path, ok) == [path |-> path, ok |-> ok]

Init ==
    /\ pc = "load_model"
    /\ model = UnboundName(NoClassifier)
    /\ vectorizer = UnboundName(NoVectorizer)
    /\ loads = <<>>
    /\ flask \in FlaskBuilds
    /\ req = [r \in Requests |-> Idle]

(***************************************************************************)
(* Startup: the try statement at module level.  The two print calls and    *)
(* traceback.print_exc() are taken to succeed (a console that can encode   *)
(* their text), so the only calls that raise are those of joblib.load.     *)
(***************************************************************************)
\* Variant of OnLoadException: the exception is raised again and the import
\* of the module ends there.
OnLoadExceptionReraises(m, v) == [pc |-> "aborted", model |-> m, vectorizer |-> v]

\* Variant of OnLoadException: only the name whose load failed is set to None.
OnLoadExceptionKeepsModel(m, v) ==
    [pc |-> "serving",
     model |-> IF m.kind = "obj" THEN m ELSE NoneName(NoClassifier),
     vectorizer |-> NoneName(NoVectorizer)]

\* The except clause: both names are set to None and execution goes on.
OnLoadException(m, v) ==
    [pc |-> "serving", model |-> NoneName(NoClassifier),
     vectorizer |-> NoneName(NoVectorizer)]

LoadModel ==
    /\ pc = "load_model"
    /\ \E out \in JoblibLoad(Classifiers, NoClassifier) :
          /\ loads' = Append(loads, Load(MODEL_PATH, ~out.raised))
          /\ IF out.raised
             THEN LET h == OnLoadException(model, vectorizer)
                  IN  pc' = h.pc /\ model' = h.model /\ vectorizer' = h.vectorizer
             ELSE /\ pc' = "load_vectorizer"
                  /\ model' = ObjName(out.obj)
                  /\ UNCHANGED vectorizer
    /\ UNCHANGED <<flask, req>>

LoadVectorizer ==
    /\ pc = "load_vectorizer"
    /\ \E out \in JoblibLoad(Vectorizers, NoVectorizer) :
          /\ loads' = Append(loads, Load(VECTORIZER_PATH, ~out.raised))
          /\ IF out.raised
             THEN LET h == OnLoadException(model, vectorizer)
                  IN  pc' = h.pc /\ model' = h.model /\ vectorizer' = h.vectorizer
             ELSE /\ pc' = "serving"
                  /\ vectorizer' = ObjName(out.obj)
                  /\ UNCHANGED model
    /\ UNCHANGED <<flask, req>>

(***************************************************************************)
(* predict(), the handler of POST /                                        *)
(***************************************************************************)
\* model is None or vectorizer is None
NotLoaded(m, v) == m.kind = "None" \/ v.kind = "None"

\* Variant of NotLoadedResponse: the status is left out, so it is 200.
NotLoadedResponseNoStatus == Jsonify("error", StrVal("Model not loaded"), 200)

\* jsonify({"error": "Model not loaded"}), 500
NotLoadedResponse == Jsonify("error", StrVal("Model not loaded"), 500)

\* Variant of Prediction: the label is not passed through str.
PredictionNoStr(m, X) == ModelPredict(m, X)[1]

\* str(model.predict(X)[0])
Prediction(m, X) == StrVal(PyStr(ModelPredict(m, X)[1]))

\* jsonify({"prediction": prediction})
PredictionResponse(prediction) == Jsonify("prediction", prediction, 200)

\* A request arrives and Flask calls predict() for it on a thread.
Receive(r) ==
    /\ pc = "serving"
    /\ req[r].pc = "idle"
    /\ \A q \in Requests : q < r => req[q].pc # "idle"
    /\ \E b \in Bodies :
          req' = [req EXCEPT ![r] = Frame("L26", b, Unbound, <<>>, <<>>, NoResponse)]
    /\ UNCHANGED <<pc, model, vectorizer, loads, flask>>

\* Variant of Check: a handler that finds the artifacts missing loads them
\* again before going on.
CheckReloading(r) ==
    /\ req[r].pc = "L26"
    /\ IF NotLoaded(model, vectorizer)
       THEN \E m \in Classifiers, v \in Vectorizers :
               /\ model' = ObjName(m)
               /\ vectorizer' = ObjName(v)
               /\ loads' = loads \o <<Load(MODEL_PATH, TRUE), Load(VECTORIZER_PATH, TRUE)>>
       ELSE UNCHANGED <<model, vectorizer, loads>>
    /\ req' = [req EXCEPT ![r].pc = "L29"]
    /\ UNCHANGED <<pc, flask>>

\* Lines 26-27.
Check(r) ==
    /\ req[r].pc = "L26"
    /\ req' = [req EXCEPT ![r] =
                 IF NotLoaded(model, vectorizer)
                 THEN Done(@, @.calls, NotLoadedResponse)
                 ELSE [@ EXCEPT !.pc = "L29"]]
    /\ UNCHANGED <<pc, model, vectorizer, loads, flask>>

\* Lines 29-30: both statements act on the request alone.
ParseBody(r) ==
    /\ req[r].pc = "L29"
    /\ LET f == req[r]
           j == GetJson(f.body, flask)
           g == DataGet(j.data)
           calls == Append(f.calls, Call("get_json", <<>>))
       IN  req' = [req EXCEPT ![r] =
                     IF j.raised # 0
                     THEN Done(f, calls, HtmlError(j.raised, "HTTPException"))
                     ELSE IF g.raised
                     THEN Done(f, calls, HtmlError(500, "AttributeError"))
                     ELSE Frame("L31", f.body, g.value, <<>>, calls, NoResponse)]
    /\ UNCHANGED <<pc, model, vectorizer, loads, flask>>

\* Variant of Transform: the documents are transformed twice, the first
\* result being thrown away.
TransformTwice(r) ==
    /\ req[r].pc = "L31"
    /\ LET f == req[r]
           docs == <<f.symptoms>>
           t == VecTransform(vectorizer, docs)
           calls == f.calls \o <<Call("transform", docs), Call("transform", docs)>>
       IN  req' = [req EXCEPT ![r] =
                     IF t.raised
                     THEN Done(f, calls, HtmlError(500, "AttributeError"))
                     ELSE Frame("L32", f.body, f.symptoms, t.X, calls, NoResponse)]
    /\ UNCHANGED <<pc, model, vectorizer, loads, flask>>

\* Variant of Transform: symptoms is a module-level name, so a handler may
\* read the value another handler in progress has stored there.
TransformSharedSymptoms(r) ==
    /\ req[r].pc = "L31"
    /\ \E q \in Requests :
          /\ req[q].pc \in {"L31", "L32"}
          /\ LET f == req[r]
                 docs == <<req[q].symptoms>>
                 t == VecTransform(vectorizer, docs)
                 calls == Append(f.calls, Call("transform", docs))
             IN  req' = [req EXCEPT ![r] =
                           IF t.raised
                           THEN Done(f, calls, HtmlError(500, "AttributeError"))
                           ELSE Frame("L32", f.body, f.symptoms, t.X, calls, NoResponse)]
    /\ UNCHANGED <<pc, model, vectorizer, loads, flask>>

\* Line 31.
Transform(r) ==
    /\ req[r].pc = "L31"
    /\ LET f == req[r]
           docs == <<f.symptoms>>
           t == VecTransform(vectorizer, docs)
           calls == Append(f.calls, Call("transform", docs))
       IN  req' = [req EXCEPT ![r] =
                     IF t.raised
                     THEN Done(f, calls, HtmlError(500, "AttributeError"))
                     ELSE Frame("L32", f.body, f.symptoms, t.X, calls, NoResponse)]
    /\ UNCHANGED <<pc, model, vectorizer, loads, flask>>

\* Lines 32-33.
Predict(r) ==
    /\ req[r].pc = "L32"
    /\ LET f == req[r]
           calls == Append(f.calls, Call("predict", f.X))
       IN  req' = [req EXCEPT ![r] =
                     Done(f, calls, PredictionResponse(Prediction(model, f.X)))]
    /\ UNCHANGED <<pc, model, vectorizer, loads, flask>>

Next ==
    \/ LoadModel
    \/ LoadVectorizer
    \/ \E r \in Requests : Receive(r)
    \/ \E r \in Requests : Check(r)
    \/ \E r \in Requests : ParseBody(r)
    \/ \E r \in Requests : Transform(r)
    \/ \E r \in Requests : Predict(r)

Spec == Init /\ [][Next]_vars

(***************************************************************************)
(* Vocabulary of the properties                                            *)
(***************************************************************************)
Serving == pc = "serving"

\* Startup ended with some call of joblib.load having raised.
LoadFailed == Serving /\ \E i \in DOMAIN loads : ~loads[i].ok

\* Startup ended with both calls of joblib.load having returned.
LoadSucceeded == Serving /\ Len(loads) = 2 /\ \A i \in DOMAIN loads : loads[i].ok

Answered(r) == req[r].pc = "done"

CallsOf(r, fn) == {i \in DOMAIN req[r].calls : req[r].calls[i].fn = fn}

ModelNotLoaded500 ==
    Response(500, "application/json", "error", StrVal("Model not loaded"))

Prediction200(text) == Response(200, "application/json", "prediction", StrVal(text))

WithSymptoms(v) == Body("object", TRUE, v)

WithoutSymptoms == Body("object", FALSE, PyNone)

\* C1: once loading an artifact has failed at startup, every request that is
\* answered, whatever its body and wherever it comes in the sequence of
\* requests, is answered 500 {"error": "Model not loaded"}, and no request
\* carries any other response.
C1_LoadFailureAnswers500 ==
    LoadFailed =>
        \A r \in Requests :
            /\ Answered(r) => req[r].resp = ModelNotLoaded500
            /\ ~Answered(r) => req[r].resp = NoResponse

\* C1 witness: the vectorizer failed to load, and a request with a malformed
\* body and then one with a body that is no object have both been answered.
C1_Witness ==
    /\ LoadFailed /\ Len(loads) = 2
    /\ Answered(1) /\ req[1].body.kind = "malformed"
    /\ Answered(2) /\ req[2].body.kind = "list"

\* C2: with both artifacts loaded, a request whose body is an object with a
\* string s under "symptoms" is answered 200 {"prediction": p}, p being the
\* string form of the label the classifier gives the row the vectorizer makes
\* of s.
C2_PredictionIsLabelString ==
    LoadSucceeded =>
        \A r \in Requests :
            (Answered(r) /\ req[r].body.kind = "object" /\ req[r].body.hasKey
                /\ req[r].body.val.kind = "str")
            => req[r].resp =
                 Prediction200(PyStr(model.obj[vectorizer.obj.tf[req[r].body.val.s]]))

\* C2 witness: {"symptoms": "fever"} was answered with the string "12", the
\* classifier's label being the integer 12.
C2_Witness ==
    \E r \in Requests :
        /\ LoadSucceeded /\ Answered(r)
        /\ req[r].body = WithSymptoms(StrVal("fever"))
        /\ model.obj[vectorizer.obj.tf["fever"]] = IntVal(12)
        /\ req[r].resp = Prediction200("12")

\* C3: with both artifacts loaded, an object body without "symptoms" is no
\* error: transform is called with the one-element list holding the empty
\* string, and the answer is the 200 prediction that {"symptoms": ""} gets.
C3_MissingKeyIsEmptyString ==
    LoadSucceeded =>
        \A r \in Requests :
            req[r].body = WithoutSymptoms =>
                /\ \A i \in CallsOf(r, "transform") :
                      req[r].calls[i].arg = <<StrVal("")>>
                /\ Answered(r) =>
                      /\ CallsOf(r, "transform") # {}
                      /\ req[r].resp = Prediction200(PyStr(model.obj[vectorizer.obj.tf[""]]))
                      /\ \A q \in Requests :
                            (Answered(q) /\ req[q].body = WithSymptoms(StrVal("")))
                            => req[q].resp = req[r].resp

\* C3 witness: a request without the key and a request with the empty string
\* have both been answered by a loaded service.
C3_Witness ==
    /\ LoadSucceeded
    /\ Answered(1) /\ req[1].body = WithoutSymptoms
    /\ Answered(2) /\ req[2].body = WithSymptoms(StrVal(""))

\* C4: every answer is 200 {"prediction": <string>} or
\* 500 {"error": "Model not loaded"}, whatever the request body.
C4_OnlyTwoOutcomes ==
    \A r \in Requests :
        Answered(r) =>
            \/ req[r].resp = ModelNotLoaded500
            \/ /\ req[r].resp.status = 200
               /\ req[r].resp.ctype = "application/json"
               /\ req[r].resp.key = "prediction"
               /\ req[r].resp.value.kind = "str"

\* C5: handling requests leaves the artifacts alone: while the service is
\* serving, no step changes model or vectorizer or calls joblib.load again,
\* so the load state stays what startup set it to.
C5_ArtifactsReadOnly ==
    [][Serving => /\ model' = model
                  /\ vectorizer' = vectorizer
                  /\ loads' = loads
                  /\ pc' = pc]_vars

\* C5 witness: a service whose loading failed has taken one request past the
\* load check and answered it, and has another in progress.
C5_Witness ==
    /\ LoadFailed /\ model.kind = "None" /\ vectorizer.kind = "None"
    /\ Answered(1)
    /\ req[2].pc = "L26"

StartupPositions == {"load_model", "load_vectorizer"}

\* C6: startup never aborts and can always go on until the service is
\* serving; joblib.load is called for the model first, and for the vectorizer
\* only after the model's load returned; once a load has raised, the service
\* is serving with the artifacts recorded as not loaded.
C6_StartupCompletes ==
    /\ pc \in StartupPositions \cup {"serving"}
    /\ pc \in StartupPositions => ENABLED (LoadModel \/ LoadVectorizer)
    /\ Len(loads) <= 2
    /\ Len(loads) >= 1 => loads[1].path = MODEL_PATH
    /\ Len(loads) = 2 => loads[1].ok /\ loads[2].path = VECTORIZER_PATH
    /\ (\E i \in DOMAIN loads : ~loads[i].ok) =>
          Serving /\ model.kind = "None" /\ vectorizer.kind = "None"
    /\ (pc = "load_vectorizer") = (loads = <<Load(MODEL_PATH, TRUE)>>)
    /\ (pc = "load_model") = (loads = <<>>)

\* C6 witness: the model's load raised, the vectorizer's load was never
\* attempted, and the service is serving.
C6_Witness == Serving /\ loads = <<Load(MODEL_PATH, FALSE)>>

\* C7: a handler calls transform at most once and predict at most once; a
\* request answered with a prediction has seen get_json, then transform, then
\* predict on what transform returned, each once, and the response exists only
\* when the handler is done; when loading failed a handler calls nothing, not
\* even get_json.
C7_CallOrder ==
    \A r \in Requests :
        LET c == req[r].calls
        IN  /\ Cardinality(CallsOf(r, "transform")) <= 1
            /\ Cardinality(CallsOf(r, "predict")) <= 1
            /\ \A i \in CallsOf(r, "predict") :
                  /\ i > 1 /\ c[i - 1].fn = "transform"
                  /\ c[i].arg = VecTransform(vectorizer, c[i - 1].arg).X
            /\ req[r].resp # NoResponse => Answered(r)
            /\ req[r].resp.key = "prediction" =>
                  /\ Len(c) = 3
                  /\ c[1].fn = "get_json" /\ c[2].fn = "transform" /\ c[3].fn = "predict"
            /\ LoadFailed => c = <<>>

\* C7 witness: a request answered with a prediction after the three calls.
C7_Witness ==
    \E r \in Requests :
        /\ Answered(r) /\ req[r].resp.key = "prediction"
        /\ Len(req[r].calls) = 3 /\ req[r].calls[3].fn = "predict"

\* C8: when the object body has the key "symptoms", transform receives its
\* value as it is, whatever its type, and the handler does not answer before
\* calling transform; the empty string stands in only for an absent key.
C8_ValuePassedUnchanged ==
    \A r \in Requests :
        /\ (req[r].body.kind = "object" /\ req[r].body.hasKey) =>
              /\ \A i \in CallsOf(r, "transform") :
                    req[r].calls[i].arg = <<req[r].body.val>>
              /\ (LoadSucceeded /\ Answered(r)) => CallsOf(r, "transform") # {}
        /\ \A i \in CallsOf(r, "transform") :
              (req[r].calls[i].arg = <<StrVal("")>> /\ req[r].body.val # StrVal(""))
              => ~req[r].body.hasKey

\* C8 witness: an explicit null under "symptoms" reached transform as None.
C8_Witness ==
    \E r \in Requests :
        /\ Answered(r) /\ req[r].body = WithSymptoms(PyNone)
        /\ \E i \in CallsOf(r, "transform") : req[r].calls[i].arg = <<PyNone>>

\* C9: once startup is over, model and vectorizer are both objects or both
\* None.
C9_BothOrNeither ==
    Serving =>
        \/ model.kind = "obj" /\ vectorizer.kind = "obj"
        \/ model.kind = "None" /\ vectorizer.kind = "None"

\* C9 witness: the model loaded, the vectorizer's load raised, and both names
\* are None.
C9_Witness ==
    /\ Serving
    /\ loads = <<Load(MODEL_PATH, TRUE), Load(VECTORIZER_PATH, FALSE)>>
    /\ model.kind = "None" /\ vectorizer.kind = "None"

\* The answer a request with body b gets from a service in the given load
\* state, worked out with no other request in progress.
AnswerAlone(b, m, v, build) ==
    IF m.kind = "None" \/ v.kind = "None" THEN ModelNotLoaded500
    ELSE LET j == GetJson(b, build)
             g == DataGet(j.data)
             t == VecTransform(v, <<g.value>>)
         IN  IF j.raised # 0 THEN HtmlError(j.raised, "HTTPException")
             ELSE IF g.raised \/ t.raised THEN HtmlError(500, "AttributeError")
             ELSE Jsonify("prediction", StrVal(PyStr(m.obj[t.X[1].n])), 200)

\* C10: the answer to a request depends on its body and on the load state
\* alone: it is the answer the request would get alone, whatever other
\* requests came before it or are handled along with it, and two requests
\* with the same body get the same answer.
C10_RequestsIndependent ==
    \A r \in Requests :
        Answered(r) =>
            /\ req[r].resp = AnswerAlone(req[r].body, model, vectorizer, flask)
            /\ \A q \in Requests :
                  (Answered(q) /\ req[q].body = req[r].body) => req[q].resp = req[r].resp

\* C10 witness: two requests with different texts were answered with
\* different predictions.
C10_Witness ==
    /\ Answered(1) /\ Answered(2)
    /\ req[1].resp.key = "prediction" /\ req[2].resp.key = "prediction"
    /\ req[1].body # req[2].body
    /\ req[1].resp # req[2].resp

====
